---- MODULE Spec2Model ----
(***************************************************************************)
(* Model of app.py, the Streamlit lung-nodule risk predictor: model        *)
(* selection by nodule diameter, the input form, predict_and_explain      *)
(* (assembly of the input frame, predict_proba, the SHAP explanation) and *)
(* the display of the result.                                              *)
(*                                                                         *)
(* Units.  Diameters and the continuous feature values are counted in     *)
(* tenths (the widgets' step=0.1); probabilities in hundredths.            *)
(* An optional value (Python's None or an unbound local) is a sequence of *)
(* length 0, a present value v is <<v>>.                                   *)
(***************************************************************************)
EXTENDS Integers, Sequences, FiniteSets, TLC

None == <<>>
Some(v) == <<v>>

\* ---------------------------------------------------------------- bounds
\* largest value entered in a number_input of the form (tenths)
MaxValue == 1
\* smallest value a direct caller of predict_and_explain puts in a record
\* is -MaxNegative
MaxNegative == 1

\* ------------------------------------------------------ program constants
\* st.number_input("Nodule Diameter (mm)", min_value=0.0, max_value=50.0)
MinDiameter == 0
MaxDiameter == 500
\* if nodule_diameter <= 8 / elif nodule_diameter <= 30
SmallLimit == 80
LargeLimit == 300
\* if malignancy_prob < 0.2 / elif malignancy_prob < 0.5
LowLimit == 20
ModerateLimit == 50
\* min_value=0.0 of the feature number_inputs
MinFeatureValue == 0

\* probabilities a fitted classifier can return, in hundredths
ProbValues == 0..100

\* the artifacts loaded at import: two fitted classifiers and the ordered
\* feature lists they were fitted on.  The .joblib files are data, not
\* code: the lists here are two lists of distinct names taken from
\* process_features, of different length and order, each with a continuous
\* feature and the diameter, one with a categorical feature.
model_8mm == "GBC_8mm_model"
model_30mm == "GBC_30mm_model"
features_8mm == <<"Age", "Nodule diameter">>
features_30mm == <<"Gender", "Nodule diameter", "CEA">>

\* names get_user_input treats as continuous (number_input); every other
\* name except 'Nodule diameter' is a 0/1 selectbox
ContinuousFeatures == {"Age", "CEA", "SCC", "Cyfra21_1", "NSE", "ProGRP"}
SelectboxOptions == {0, 1}

VARIABLES
    SHAP_AVAILABLE,     \* module global set by the guarded import
    pc,                 \* position of the running script / call
    caller,             \* "main" or "direct": who runs predict_and_explain
    nodule_diameter,    \* main's local, optional
    features,           \* main's local, <<>> while unbound
    model,              \* main's local, "unbound" before selection
    input_data,         \* main's local, optional mapping name -> value
    mainScope,          \* names bound in main's frame
    frame,              \* locals of the running predict_and_explain
    returned,           \* what predict_and_explain returned, optional
    malignancy_prob,    \* main's local, optional
    shap_plot_values,   \* main's local, optional (None is <<>>)
    calls,              \* calls made on the model / explainer, in order
    output,             \* st.* messages written by main, in order
    exception           \* unhandled exception that ended the run, or "none"

vars == <<SHAP_AVAILABLE, pc, caller, nodule_diameter, features, model,
          input_data, mainScope, frame, returned, malignancy_prob,
          shap_plot_values, calls, output, exception>>

\* frame.shap records how the SHAP block of the call went
NoFrame == [input_data |-> None, model |-> "unbound", features |-> <<>>,
            input_df |-> None, malignancy_prob |-> None, shap |-> "not run"]

\* ------------------------------------------------------------- selection
\* variant: the first test written with < instead of <=
SelectStrict(d) ==
    IF d < SmallLimit
    THEN [message |-> <<"info", "8mm Model Selected">>,
          features |-> features_8mm, model |-> model_8mm, return |-> FALSE]
    ELSE IF d <= LargeLimit
    THEN [message |-> <<"info", "30mm Model Selected">>,
          features |-> features_30mm, model |-> model_30mm, return |-> FALSE]
    ELSE [message |-> <<"error", "Nodule diameter out of predictive range">>,
          features |-> <<>>, model |-> "unbound", return |-> TRUE]

\* variant: the second test against the widget's maximum instead of 30
SelectWide(d) ==
    IF d <= SmallLimit
    THEN [message |-> <<"info", "8mm Model Selected">>,
          features |-> features_8mm, model |-> model_8mm, return |-> FALSE]
    ELSE IF d <= MaxDiameter
    THEN [message |-> <<"info", "30mm Model Selected">>,
          features |-> features_30mm, model |-> model_30mm, return |-> FALSE]
    ELSE [message |-> <<"error", "Nodule diameter out of predictive range">>,
          features |-> <<>>, model |-> "unbound", return |-> TRUE]

\* variant: the error is shown but main goes on with the 30mm entry
SelectFallback(d) ==
    IF d <= SmallLimit
    THEN [message |-> <<"info", "8mm Model Selected">>,
          features |-> features_8mm, model |-> model_8mm, return |-> FALSE]
    ELSE IF d <= LargeLimit
    THEN [message |-> <<"info", "30mm Model Selected">>,
          features |-> features_30mm, model |-> model_30mm, return |-> FALSE]
    ELSE [message |-> <<"error", "Nodule diameter out of predictive range">>,
          features |-> features_30mm, model |-> model_30mm, return |-> FALSE]

\* main, the if/elif/else on nodule_diameter: the st.* message written and
\* the (features, model) pair bound, or the early return
Select(d) ==
    IF d <= SmallLimit
    THEN [message |-> <<"info", "8mm Model Selected">>,
          features |-> features_8mm, model |-> model_8mm, return |-> FALSE]
    ELSE IF d <= LargeLimit
    THEN [message |-> <<"info", "30mm Model Selected">>,
          features |-> features_30mm, model |-> model_30mm, return |-> FALSE]
    ELSE [message |-> <<"error", "Nodule diameter out of predictive range">>,
          features |-> <<>>, model |-> "unbound", return |-> TRUE]

\* values the sidebar number_input can hand to main
DiameterInputs == MinDiameter..MaxDiameter

\* main up to the end of the sidebar block: read the diameter, select
Sidebar ==
    /\ pc = "sidebar"
    /\ \E d \in DiameterInputs :
         LET s == Select(d) IN
         /\ nodule_diameter' = Some(d)
         /\ features' = s.features
         /\ model' = s.model
         /\ output' = Append(output, s.message)
         /\ mainScope' = mainScope \cup
                IF s.return THEN {"nodule_diameter"}
                ELSE {"nodule_diameter", "features", "model"}
         /\ pc' = IF s.return THEN "done" ELSE "form"
    /\ UNCHANGED <<SHAP_AVAILABLE, caller, input_data, frame, returned,
                   malignancy_prob, shap_plot_values, calls, exception>>

\* ------------------------------------------------------------ input form
Names(fs) == {fs[i] : i \in 1..Len(fs)}

\* get_user_input: mid = len(features) // 2, features[:mid], features[mid:]
Col1Features(fs) == SubSeq(fs, 1, Len(fs) \div 2)
Col2Features(fs) == SubSeq(fs, (Len(fs) \div 2) + 1, Len(fs))

\* process_features: what the widget of one feature can yield
WidgetValues(feature, d) ==
    IF feature = "Nodule diameter" THEN {d}
    ELSE IF feature \in ContinuousFeatures THEN MinFeatureValue..MaxValue
    ELSE SelectboxOptions

FormValues == (MinFeatureValue..MaxValue) \cup SelectboxOptions

\* get_user_input: the mappings it can return for a feature list and diameter
UserInputs(fs, d) ==
    LET keys == Names(Col1Features(fs)) \cup Names(Col2Features(fs)) IN
    { [f \in keys |-> IF f = "Nodule diameter" THEN d ELSE g[f]] :
        g \in { h \in [keys -> FormValues] :
                  \A f \in keys : f = "Nodule diameter"
                                  \/ h[f] \in WidgetValues(f, d) } }

\* input_data = get_user_input(features, nodule_diameter)
GetUserInput ==
    /\ pc = "form"
    /\ \E data \in UserInputs(features, nodule_diameter[1]) :
         input_data' = Some(data)
    /\ mainScope' = mainScope \cup {"input_data"}
    /\ pc' = "button"
    /\ UNCHANGED <<SHAP_AVAILABLE, caller, nodule_diameter, features, model,
                   frame, returned, malignancy_prob, shap_plot_values, calls,
                   output, exception>>

\* if st.sidebar.button("Predict Risk"): pressed, main calls
\* predict_and_explain(input_data, model, features); otherwise main ends
Button ==
    /\ pc = "button"
    /\ \E pressed \in BOOLEAN :
         IF pressed
         THEN /\ frame' = [NoFrame EXCEPT !.input_data = input_data,
                                          !.model = model,
                                          !.features = features]
              /\ pc' = "assemble"
         ELSE /\ frame' = frame
              /\ pc' = "done"
    /\ UNCHANGED <<SHAP_AVAILABLE, caller, nodule_diameter, features, model,
                   input_data, mainScope, returned, malignancy_prob,
                   shap_plot_values, calls, output, exception>>

\* --------------------------------------------------- predict_and_explain
\* variant: input_data.get(feature, 0)
LookupDefault(data, feature) ==
    IF feature \in DOMAIN data
    THEN [raised |-> "none", value |-> data[feature]]
    ELSE [raised |-> "none", value |-> 0]

\* input_data[feature]: the value, or KeyError when the key is absent
Lookup(data, feature) ==
    IF feature \in DOMAIN data
    THEN [raised |-> "none", value |-> data[feature]]
    ELSE [raised |-> "KeyError", value |-> 0]

\* position of a column name in a list of columns, 0 when absent
RECURSIVE IndexOf(_, _)
IndexOf(cols, name) ==
    IF cols = <<>> THEN 0
    ELSE IF cols[Len(cols)] = name /\ IndexOf(SubSeq(cols, 1, Len(cols) - 1), name) = 0
    THEN Len(cols)
    ELSE IndexOf(SubSeq(cols, 1, Len(cols) - 1), name)

\* {feature: input_data[feature] for feature in features}, evaluated left to
\* right: a dict keeps a key at the place of its first insertion and a later
\* insertion of the same key overwrites the value.  The first failing lookup
\* ends the comprehension.
RECURSIVE DictComprehension(_, _)
DictComprehension(data, fs) ==
    IF fs = <<>>
    THEN [raised |-> "none", key |-> "", columns |-> <<>>, row |-> <<>>]
    ELSE LET init == DictComprehension(data, SubSeq(fs, 1, Len(fs) - 1))
             f == fs[Len(fs)]
             v == Lookup(data, f)
             at == IndexOf(init.columns, f)
         IN  IF init.raised # "none" THEN init
             ELSE IF v.raised # "none"
             THEN [raised |-> v.raised, key |-> f, columns |-> <<>>, row |-> <<>>]
             ELSE IF at = 0
             THEN [init EXCEPT !.columns = Append(@, f),
                               !.row = Append(@, v.value)]
             ELSE [init EXCEPT !.row[at] = v.value]

RECURSIVE Reversed(_)
Reversed(q) == IF q = <<>> THEN <<>> ELSE Append(Reversed(Tail(q)), Head(q))

\* variant: the comprehension runs over reversed(features)
InputDfReversed(data, fs) == DictComprehension(data, Reversed(fs))

\* pd.DataFrame([{...}]): one row, the columns in the dict's key order
InputDf(data, fs) == DictComprehension(data, fs)

\* line 118
Assemble ==
    /\ pc = "assemble"
    /\ LET r == InputDf(frame.input_data[1], frame.features) IN
         IF r.raised = "none"
         THEN /\ frame' = [frame EXCEPT !.input_df =
                              Some([columns |-> r.columns, row |-> r.row])]
              /\ exception' = exception
              /\ pc' = "predict"
         ELSE /\ frame' = frame
              /\ exception' = <<r.raised, r.key>>
              /\ pc' = "done"
    /\ UNCHANGED <<SHAP_AVAILABLE, caller, nodule_diameter, features, model,
                   input_data, mainScope, returned, malignancy_prob,
                   shap_plot_values, calls, output>>

\* prediction = model.predict_proba(input_df); malignancy_prob = prediction[0][1]
\* The fitted classifier is opaque: any probability of the positive class.
Predict ==
    /\ pc = "predict"
    /\ \E p \in ProbValues :
         frame' = [frame EXCEPT !.malignancy_prob = Some(p)]
    /\ calls' = Append(calls, [fn |-> "predict_proba", model |-> frame.model,
                               arg |-> frame.input_df])
    /\ pc' = "explain"
    /\ UNCHANGED <<SHAP_AVAILABLE, caller, nodule_diameter, features, model,
                   input_data, mainScope, returned, malignancy_prob,
                   shap_plot_values, output, exception>>

\* what the SHAP library can do inside the try block
ShapOutcomes == {"TreeExplainer raises", "shap_values raises",
                 "list of two", "list of one", "ndarray"}

\* variant: the explainer is built on the module-level model_8mm
ExplainCallsGlobal(outcome, m, df) ==
    IF outcome = "TreeExplainer raises"
    THEN <<[fn |-> "TreeExplainer", model |-> model_8mm, arg |-> None]>>
    ELSE <<[fn |-> "TreeExplainer", model |-> model_8mm, arg |-> None],
           [fn |-> "shap_values", model |-> model_8mm, arg |-> df]>>

\* the calls the try block makes before it ends in the given way
ExplainCalls(outcome, m, df) ==
    IF outcome = "TreeExplainer raises"
    THEN <<[fn |-> "TreeExplainer", model |-> m, arg |-> None]>>
    ELSE <<[fn |-> "TreeExplainer", model |-> m, arg |-> None],
           [fn |-> "shap_values", model |-> m, arg |-> df]>>

\* the try block: explainer = shap.TreeExplainer(model);
\* shap_values = explainer.shap_values(input_df);
\* shap_values[1] if isinstance(shap_values, list) else shap_values
\* (shap_values[1] of a one-element list raises IndexError)
TryBlock(outcome, m, df) ==
    IF outcome = "list of two"
    THEN [raised |-> FALSE,
          value |-> Some([of |-> "shap_values[1]", model |-> m, input_df |-> df])]
    ELSE IF outcome = "ndarray"
    THEN [raised |-> FALSE,
          value |-> Some([of |-> "shap_values", model |-> m, input_df |-> df])]
    ELSE [raised |-> TRUE, value |-> None]

\* variant: the except branch returns None, None
ReturnValueDropsProb(available, raised, prob, plot) ==
    IF ~available
    THEN [malignancy_prob |-> prob, shap_plot_values |-> None]
    ELSE IF raised
    THEN [malignancy_prob |-> None, shap_plot_values |-> None]
    ELSE [malignancy_prob |-> prob, shap_plot_values |-> plot]

\* the three return statements of predict_and_explain
ReturnValue(available, raised, prob, plot) ==
    IF ~available
    THEN [malignancy_prob |-> prob, shap_plot_values |-> None]
    ELSE IF raised
    THEN [malignancy_prob |-> prob, shap_plot_values |-> None]
    ELSE [malignancy_prob |-> prob, shap_plot_values |-> plot]

\* lines 125-138
Explain ==
    /\ pc = "explain"
    /\ IF SHAP_AVAILABLE
       THEN \E outcome \in ShapOutcomes :
              LET t == TryBlock(outcome, frame.model, frame.input_df) IN
              /\ calls' = calls \o ExplainCalls(outcome, frame.model, frame.input_df)
              /\ output' = IF t.raised
                           THEN Append(output, <<"warning", "SHAP explanation failed">>)
                           ELSE output
              /\ returned' = Some(ReturnValue(TRUE, t.raised,
                                              frame.malignancy_prob, t.value))
              /\ frame' = [frame EXCEPT !.shap = outcome]
       ELSE /\ calls' = calls
            /\ output' = output
            /\ frame' = [frame EXCEPT !.shap = "unavailable"]
            /\ returned' = Some(ReturnValue(FALSE, FALSE,
                                            frame.malignancy_prob, None))
    /\ pc' = IF caller = "main" THEN "results" ELSE "done"
    /\ UNCHANGED <<SHAP_AVAILABLE, caller, nodule_diameter, features, model,
                   input_data, mainScope, malignancy_prob,
                   shap_plot_values, exception>>

\* ------------------------------------------------------ display of result
\* variant: the first test written with <= instead of <
RiskBandInclusive(p) ==
    IF p <= LowLimit
    THEN <<"success", "Low Risk: Close monitoring recommended">>
    ELSE IF p < ModerateLimit
    THEN <<"warning", "Moderate Risk: Further investigation suggested">>
    ELSE <<"error", "High Risk: Immediate clinical consultation advised">>

\* the if/elif/else on malignancy_prob
RiskBand(p) ==
    IF p < LowLimit
    THEN <<"success", "Low Risk: Close monitoring recommended">>
    ELSE IF p < ModerateLimit
    THEN <<"warning", "Moderate Risk: Further investigation suggested">>
    ELSE <<"error", "High Risk: Immediate clinical consultation advised">>

\* malignancy_prob, shap_plot_values = predict_and_explain(...), then the
\* metric and the risk interpretation
ShowResults ==
    /\ pc = "results"
    /\ malignancy_prob' = returned[1].malignancy_prob
    /\ shap_plot_values' = returned[1].shap_plot_values
    /\ mainScope' = mainScope \cup {"malignancy_prob", "shap_plot_values",
                                    "result_col1", "result_col2"}
    /\ output' = output \o <<<<"metric", returned[1].malignancy_prob[1]>>,
                             RiskBand(returned[1].malignancy_prob[1])>>
    /\ pc' = "shap_plots"
    /\ UNCHANGED <<SHAP_AVAILABLE, caller, nodule_diameter, features, model,
                   input_data, frame, returned, calls, exception>>

\* names bound at module level when main runs
ModuleGlobals(available) ==
    {"os", "sys", "joblib", "st", "sklearn", "np", "packaging", "pd", "plt",
     "SHAP_AVAILABLE", "safe_load_model", "model_8mm", "model_30mm",
     "features_8mm", "features_30mm", "patch_numpy_version",
     "get_user_input", "predict_and_explain", "main"}
    \cup (IF available THEN {"shap"} ELSE {})

\* names the SHAP visualisation block reads, in evaluation order
ShapBlockReads == <<"st", "plt", "shap", "shap_plot_values", "input_df">>

\* the first name of a sequence of reads that resolves neither in the local
\* frame nor at module level ("" when all resolve)
RECURSIVE FirstUnbound(_, _)
FirstUnbound(reads, bound) ==
    IF reads = <<>> THEN ""
    ELSE IF Head(reads) \notin bound THEN Head(reads)
    ELSE FirstUnbound(Tail(reads), bound)

\* if SHAP_AVAILABLE and shap_plot_values is not None: the two summary plots
ShowShap ==
    /\ pc = "shap_plots"
    /\ IF SHAP_AVAILABLE /\ shap_plot_values # None
       THEN LET unbound == FirstUnbound(ShapBlockReads,
                               mainScope \cup ModuleGlobals(SHAP_AVAILABLE)) IN
            IF unbound = ""
            THEN /\ output' = output \o <<<<"markdown", "### Feature Impact Analysis">>,
                                          <<"pyplot", "bar">>, <<"pyplot", "summary">>>>
                 /\ mainScope' = mainScope \cup {"col_shap1", "col_shap2", "fig", "ax"}
                 /\ exception' = exception
            ELSE /\ output' = Append(output, <<"markdown", "### Feature Impact Analysis">>)
                 /\ mainScope' = mainScope \cup {"col_shap1", "col_shap2", "fig", "ax"}
                 /\ exception' = <<"NameError", unbound>>
       ELSE UNCHANGED <<output, mainScope, exception>>
    /\ pc' = "done"
    /\ UNCHANGED <<SHAP_AVAILABLE, caller, nodule_diameter, features, model,
                   input_data, frame, returned, malignancy_prob,
                   shap_plot_values, calls>>

\* ------------------------------------------------------------ run control
NoException == <<"none", "">>

Fresh(start, who) ==
    /\ pc = start
    /\ caller = who
    /\ nodule_diameter = None
    /\ features = <<>>
    /\ model = "unbound"
    /\ input_data = None
    /\ mainScope = {}
    /\ frame = NoFrame
    /\ returned = None
    /\ malignancy_prob = None
    /\ shap_plot_values = None
    /\ calls = <<>>
    /\ output = <<>>
    /\ exception = NoException

\* the module has been imported (SHAP present or not, the four artifacts
\* loaded) and main() is about to run
Init ==
    /\ SHAP_AVAILABLE \in BOOLEAN
    /\ Fresh("sidebar", "main")

\* Streamlit runs the script again on the next interaction: main() starts
\* over with fresh locals
Rerun ==
    /\ pc = "done"
    /\ caller = "main"
    /\ pc' = "sidebar"
    /\ nodule_diameter' = None
    /\ features' = <<>>
    /\ model' = "unbound"
    /\ input_data' = None
    /\ mainScope' = {}
    /\ frame' = NoFrame
    /\ returned' = None
    /\ malignancy_prob' = None
    /\ shap_plot_values' = None
    /\ calls' = <<>>
    /\ output' = <<>>
    /\ exception' = NoException
    /\ UNCHANGED <<SHAP_AVAILABLE, caller>>

Next ==
    \/ Sidebar
    \/ GetUserInput
    \/ Button
    \/ Assemble
    \/ Predict
    \/ Explain
    \/ ShowResults
    \/ ShowShap
    \/ Rerun

Spec == Init /\ [][Next]_vars

\* ------------------------------------- predict_and_explain as a function
\* keys and values of the records a caller passes to predict_and_explain
CallKeys == Names(features_8mm) \cup Names(features_30mm)
CallValues == (0 - MaxNegative)..MaxValue \cup SelectboxOptions

CallRecords ==
    UNION { [keys -> CallValues] : keys \in SUBSET CallKeys }

InitCall ==
    /\ SHAP_AVAILABLE \in BOOLEAN
    /\ Fresh("call", "direct")

\* predict_and_explain(input_data, model, features) on arbitrary arguments
Call ==
    /\ pc = "call"
    /\ \E data \in CallRecords, m \in {model_8mm, model_30mm},
          fs \in {features_8mm, features_30mm} :
         frame' = [NoFrame EXCEPT !.input_data = Some(data), !.model = m,
                                  !.features = fs]
    /\ pc' = "assemble"
    /\ UNCHANGED <<SHAP_AVAILABLE, caller, nodule_diameter, features, model,
                   input_data, mainScope, returned, malignancy_prob,
                   shap_plot_values, calls, output, exception>>

\* the next call starts from a fresh frame
NextCallReset ==
    /\ pc = "done"
    /\ caller = "direct"
    /\ pc' = "call"
    /\ frame' = NoFrame
    /\ returned' = None
    /\ calls' = <<>>
    /\ output' = <<>>
    /\ exception' = NoException
    /\ UNCHANGED <<SHAP_AVAILABLE, caller, nodule_diameter, features, model,
                   input_data, mainScope, malignancy_prob, shap_plot_values>>

NextCall ==
    \/ Call
    \/ Assemble
    \/ Predict
    \/ Explain
    \/ NextCallReset

SpecCall == InitCall /\ [][NextCall]_vars

\* ================================================================ claims
\* the st.* messages of a kind among those written so far
Written(msgs) == SelectSeq(output, LAMBDA m : m \in msgs)

OutOfRangeMessage == <<"error", "Nodule diameter out of predictive range">>
LowMessage == <<"success", "Low Risk: Close monitoring recommended">>
ModerateMessage == <<"warning", "Moderate Risk: Further investigation suggested">>
HighMessage == <<"error", "High Risk: Immediate clinical consultation advised">>
BandMessages == {LowMessage, ModerateMessage, HighMessage}

PredictCalls == SelectSeq(calls, LAMBDA c : c.fn = "predict_proba")
ExplainerCalls == SelectSeq(calls, LAMBDA c : c.fn # "predict_proba")

\* C1: once main has read a diameter d, 0 <= d <= 8mm binds the 8mm model
\* with the 8mm feature list and 8mm < d <= 30mm binds the 30mm model with
\* the 30mm feature list, and a call of predict_and_explain gets that pair;
\* d = 8mm is on the 8mm side.  (80 and 300 are 8mm and 30mm in tenths.)
C1_SelectionInRange ==
    nodule_diameter # None =>
        LET d == nodule_diameter[1] IN
        /\ (0 <= d /\ d <= 80) =>
              /\ features = features_8mm /\ model = model_8mm
              /\ frame # NoFrame =>
                    frame.features = features_8mm /\ frame.model = model_8mm
        /\ (80 < d /\ d <= 300) =>
              /\ features = features_30mm /\ model = model_30mm
              /\ frame # NoFrame =>
                    frame.features = features_30mm /\ frame.model = model_30mm

\* a prediction was made for a nodule of exactly 8mm, with the 8mm model
C1_Witness ==
    /\ nodule_diameter = Some(80)
    /\ PredictCalls # <<>>
    /\ PredictCalls[1].model = model_8mm
    /\ frame.features = features_8mm

C3_StopsAtSelection ==
    (nodule_diameter # None /\ nodule_diameter[1] > 300) =>
        /\ input_data = None
        /\ frame = NoFrame
        /\ calls = <<>>
        /\ returned = None
        /\ malignancy_prob = None

\* a run with diameter 45mm has ended
C3_Witness ==
    /\ nodule_diameter = Some(450)
    /\ pc = "done"
    /\ calls = <<>>

\* C4: once the result is shown, exactly one risk band has been written for
\* the probability p: Low for p < 0.20, Moderate for 0.20 <= p < 0.50, High
\* for p >= 0.50.  (20 and 50 are 0.20 and 0.50 in hundredths.)
C4_RiskBand ==
    (malignancy_prob # None) =>
        LET p == malignancy_prob[1]
            bands == Written(BandMessages)
        IN  /\ Len(bands) = 1
            /\ (p < 20) => bands[1] = LowMessage
            /\ (20 <= p /\ p < 50) => bands[1] = ModerateMessage
            /\ (p >= 50) => bands[1] = HighMessage

\* the probability 0.20 was shown as Moderate
C4_Witness ==
    /\ malignancy_prob = Some(20)
    /\ Written(BandMessages) = <<ModerateMessage>>

\* the record given to the running predict_and_explain holds every feature
CompleteRecord ==
    /\ frame.input_data # None
    /\ Names(frame.features) \subseteq DOMAIN frame.input_data[1]

PastAssembly == pc \in {"predict", "explain", "results", "shap_plots", "done"}

\* C5: when the record holds every feature of the list, the assembled frame
\* has as many columns as the list has names, its i-th column is the i-th
\* name and its i-th value the record's value for that name; keys outside
\* the list raise nothing and are not columns.
C5_AssembledInOrder ==
    (CompleteRecord /\ PastAssembly) =>
        /\ exception[1] # "KeyError"
        /\ frame.input_df # None
        /\ LET df == frame.input_df[1] IN
           /\ Len(df.columns) = Len(frame.features)
           /\ Len(df.row) = Len(frame.features)
           /\ \A i \in 1..Len(frame.features) :
                 /\ df.columns[i] = frame.features[i]
                 /\ df.row[i] = frame.input_data[1][frame.features[i]]

\* a record with a key outside the three-name list was assembled
C5_Witness ==
    /\ CompleteRecord
    /\ frame.features = features_30mm
    /\ DOMAIN frame.input_data[1] # Names(frame.features)
    /\ frame.input_df # None
    /\ frame.input_data[1]["Gender"] # frame.input_data[1]["CEA"]
    /\ pc = "done"

\* the value domains of section 4.2 of the specification
InDomain(feature, v) ==
    IF feature \in ContinuousFeatures \cup {"Nodule diameter"}
    THEN v >= 0
    ELSE v \in {0, 1}

OutOfDomainRecord ==
    /\ CompleteRecord
    /\ \E i \in 1..Len(frame.features) :
         ~InDomain(frame.features[i], frame.input_data[1][frame.features[i]])

\* C6: a record that holds every feature but has a negative value for a
\* continuous feature, or a value other than 0 or 1 for a categorical one,
\* makes the call fail with a domain error before predict_proba is called.
C6_DomainRevalidated ==
    (OutOfDomainRecord /\ PastAssembly) =>
        /\ exception[1] = "DomainError"
        /\ PredictCalls = <<>>

\* C7: when a feature of the list is absent from the record, whatever other
\* keys it holds, the call ends with the missing-key error naming an absent
\* feature, returns nothing, and predict_proba is not called.
C7_MissingFeature ==
    (frame.input_data # None /\ ~CompleteRecord /\ PastAssembly) =>
        /\ pc = "done"
        /\ exception[1] = "KeyError"
        /\ exception[2] \in Names(frame.features) \ DOMAIN frame.input_data[1]
        /\ frame.input_df = None
        /\ returned = None
        /\ calls = <<>>

\* a record lacking a feature but holding a key outside the list has failed
C7_Witness ==
    /\ frame.input_data # None
    /\ ~CompleteRecord
    /\ DOMAIN frame.input_data[1] \ Names(frame.features) # {}
    /\ pc = "done"
    /\ exception[1] = "KeyError"

AttributionFailed ==
    frame.shap \in {"unavailable", "TreeExplainer raises", "shap_values raises",
                    "list of one"}

\* C8: when SHAP is not importable or the SHAP block raises, the call still
\* returns, with the probability computed by predict_proba and None as the
\* attribution, and no exception leaves predict_and_explain.
C8_BestEffortAttribution ==
    AttributionFailed =>
        /\ returned # None
        /\ returned[1].malignancy_prob # None
        /\ returned[1].malignancy_prob = frame.malignancy_prob
        /\ returned[1].shap_plot_values = None
        /\ exception = NoException
        /\ pc \in {"results", "shap_plots", "done"}

\* the explainer raised and main still showed the probability 0.50
C8_Witness ==
    /\ SHAP_AVAILABLE
    /\ frame.shap = "shap_values raises"
    /\ returned # None
    /\ malignancy_prob = Some(50)
    /\ pc = "done"

\* C9: in a run of main every call on a model (predict_proba, TreeExplainer,
\* shap_values) is on the model selected by the diameter, the feature list
\* of the call is that entry's list, and predict_proba and shap_values get
\* the one assembled frame, whose columns are that list in order.
C9_SameModelSameInput ==
    (calls # <<>>) =>
        /\ \/ (nodule_diameter[1] <= 80 /\ frame.model = model_8mm
                 /\ frame.features = features_8mm)
           \/ (nodule_diameter[1] > 80 /\ frame.model = model_30mm
                 /\ frame.features = features_30mm)
        /\ frame.input_df # None
        /\ frame.input_df[1].columns = frame.features
        /\ \A i \in 1..Len(calls) :
              /\ calls[i].model = frame.model
              /\ calls[i].fn \in {"predict_proba", "shap_values"} =>
                    calls[i].arg = frame.input_df

\* the explainer of the 30mm model was asked for the values of the frame
\* predict_proba had been given
C9_Witness ==
    /\ Len(calls) = 3
    /\ calls[1].fn = "predict_proba"
    /\ calls[3].fn = "shap_values"
    /\ calls[3].model = model_30mm
    /\ calls[3].arg = calls[1].arg
    /\ frame.shap = "list of two"

\* C10: a run of main in which Predict was pressed for a diameter in range
\* ends without an unhandled exception, having shown the probability and
\* exactly one risk band, whether or not an attribution was produced.
C10_PredictCompletes ==
    (pc = "done" /\ frame # NoFrame) =>
        /\ exception = NoException
        /\ malignancy_prob # None
        /\ Written({<<"metric", malignancy_prob[1]>>}) # <<>>
        /\ Len(Written(BandMessages)) = 1

====
